---- MODULE Spec2Model ----
(***************************************************************************)
(* A model of the parallel-callback join of code/cpp11_parallel_callback.   *)
(*                                                                         *)
(* parallel_test_2.cpp and parallel_test_3.cpp hold the same class          *)
(* ParallelCallback (a shared ParallelCallbackData with an atomic counter   *)
(* and an atomic flag 'started'); parallel_test_3.cpp adds the variadic     *)
(* helper run().  parallel_test_1.cpp is the first version: a shared atomic *)
(* counter initialised to 2 that each task callback decrements and then     *)
(* re-reads.                                                                *)
(*                                                                         *)
(* Every atomic operation of the code (fetch-and-decrement, increment,      *)
(* load, store) is one step of the model; what lies between two atomic      *)
(* operations of one thread can be interleaved with steps of the others.    *)
(***************************************************************************)
EXTENDS Integers, Sequences, FiniteSets

(* ------------------------------ bounds -------------------------------- *)

\* The longest starter list run() is given.
MaxStarters == 3

\* The threads that hold a copy of the handle and use it freely.
NClients == 2

\* The member calls (conversions to Callback, check(), slot invocations)
\* the client threads make in all.
MaxCalls == 5

\* ------------------------------ inputs ---------------------------------

\* Thread 0 is the calling thread; thread i > 0 is the thread that the
\* i-th starter hands its slot to.
Threads == 0..MaxStarters

\* What a starter does with the slot it is given (the Arg of operator()):
\*   "sync"  invokes it before returning, on the calling thread;
\*   "async" is asyncCall of the repository: std::async(std::launch::async)
\*           runs it on a new thread, and the temporary future returned by
\*           std::async joins that thread in its destructor, before
\*           asyncCall returns;
\*   "spawn" hands it to a thread that invokes it at any later time;
\*   "drop"  destroys it without invoking it.
Kinds == {"sync", "async", "spawn", "drop"}

StarterLists == UNION {[1..k -> Kinds] : k \in 0..MaxStarters}

\* "run" is ParallelCallback::run(completion, s1, ..., sn) of
\* parallel_test_3.cpp; "direct" is the hand-written sequence of
\* parallel_test_2.cpp: construct, s1(parallel), ..., sn(parallel), check().
Apis == {"run", "direct"}

\* The role of a decrement: slot i for i >= 1, and 0 for check().
Close == 0

VARIABLES
    counter,    \* ParallelCallbackData::counter (std::atomic<int>)
    started,    \* ParallelCallbackData::started (std::atomic<bool>)
    callback,   \* ParallelCallbackData::callback: "completion" or "empty"
    aborted,    \* an assert has failed: abort() has ended the process
    pc,         \* pc[t]: where thread t is
    ret,        \* ret[t]: where thread t continues when its call returns
    who,        \* who[t]: the role thread t is running step() for
    pre,        \* pre[t]: the value thread t's counter-- returned
    api,        \* which entry point the caller uses
    starters,   \* the starters given, in order
    idx,        \* the starter the calling thread is at
    mintLog,    \* one entry per ++counter done: the value of started then
    decLog,     \* one entry per counter-- done, in order
    firedBy,    \* the roles that invoked the completion, in order
    stepDone,   \* the roles whose step() has returned
    output,     \* what has been written to std::cout
    calls,      \* the member calls the client threads have made
    refs        \* the owners of the ParallelCallbackData (its use count)

vars == <<counter, started, callback, aborted, pc, ret, who, pre, api,
          starters, idx, mintLog, decLog, firedBy, stepDone, output, calls,
          refs>>

data == <<counter, started, callback>>
prog == <<api, starters, idx, calls>>
logs == <<mintLog, decLog, firedBy, stepDone>>

N == Len(starters)
fired == Len(firedBy)
mints == Len(mintLog)

(* ------------------- ParallelCallback: the class ---------------------- *)

\* A slip: the test made on the value after the decrement
\* (--counter <= 0).
ObservesZero_PostDec(p) == p - 1 <= 0

\* A slip: the prefix decrement of the first version (--counter == 0).
ObservesZero_Prefix(p) == p - 1 = 0

\* counter-- == 0 (step): the test on the value the fetch-and-decrement
\* returned, which is the value before the decrement.
ObservesZero(p) == p = 0

\* A slip: the flag is not looked at.
MayFire_NoFlag(st, cb) == cb # "empty"

\* A slip: the callback is not tested before it is called.
MayFire_NoNullCheck(st, cb) == st

\* data->started && data->callback (step).
MayFire(st, cb) == st /\ cb # "empty"

\* A slip: the mint is not counted.
Incremented_None(c) == c

\* ++_data->counter (operator Callback).
Incremented(c) == c + 1

\* A slip: the slot binds the address of the state, which owns nothing.
Shared_Raw(r) == r

\* std::bind(&ParallelCallback::step, _data) stores a copy of the
\* shared_ptr: every copy of a slot is one more owner of the state.
Shared(r) == r + 1

\* A slot, or the ParallelCallback, is destroyed: one owner fewer.
Released(r) == r - 1

\* A slip: the counter is read and not decremented.
Decremented_None(c) == c

\* data->counter-- (step): the stored value.
Decremented(c) == c - 1

\* A call of thread t returns to its caller.
Return(t) == pc' = [pc EXCEPT ![t] = ret[t]]

\* assert(!_data->started) of operator Callback(): thread t is converting
\* the handle to a Callback.
MintAssert(t) ==
    /\ ~aborted
    /\ pc[t] = "mint_assert"
    /\ IF started
         THEN /\ aborted' = TRUE
              /\ pc' = [pc EXCEPT ![t] = "aborted"]
         ELSE /\ aborted' = aborted
              /\ pc' = [pc EXCEPT ![t] = "mint_inc"]
    /\ UNCHANGED <<refs, data, ret, who, pre, prog, logs, output>>

\* ++_data->counter; return std::bind(&ParallelCallback::step, _data).
MintInc(t) ==
    /\ ~aborted
    /\ pc[t] = "mint_inc"
    /\ counter' = Incremented(counter)
    /\ refs' = Shared(refs)
    /\ mintLog' = Append(mintLog, started)
    /\ Return(t)
    /\ UNCHANGED <<started, callback, aborted, ret, who, pre, prog, decLog,
                   firedBy, stepDone, output>>

\* assert(!_data->started) of check().
CheckAssert(t) ==
    /\ ~aborted
    /\ pc[t] = "check_assert"
    /\ IF started
         THEN /\ aborted' = TRUE
              /\ pc' = [pc EXCEPT ![t] = "aborted"]
         ELSE /\ aborted' = aborted
              /\ pc' = [pc EXCEPT ![t] = "check_store"]
    /\ UNCHANGED <<refs, data, ret, who, pre, prog, logs, output>>

\* A slip: check() only sets the flag and does not run step().
CheckStore_FlagOnly(t) ==
    /\ ~aborted
    /\ pc[t] = "check_store"
    /\ started' = TRUE
    /\ Return(t)
    /\ UNCHANGED <<refs, counter, callback, aborted, ret, who, pre, prog, logs,
                   output>>

\* _data->started = true; step(_data).
CheckStore(t) ==
    /\ ~aborted
    /\ pc[t] = "check_store"
    /\ started' = TRUE
    /\ who' = [who EXCEPT ![t] = Close]
    /\ pc' = [pc EXCEPT ![t] = "step_dec"]
    /\ UNCHANGED <<refs, counter, callback, aborted, ret, pre, prog, logs,
                   output>>

\* if(data->counter-- == 0): the atomic fetch-and-decrement of step().
StepDec(t) ==
    /\ ~aborted
    /\ pc[t] = "step_dec"
    /\ counter' = Decremented(counter)
    /\ pre' = [pre EXCEPT ![t] = counter]
    /\ decLog' = Append(decLog,
                        [who |-> who[t], pre |-> counter, st |-> started,
                         fb |-> fired])
    /\ IF ObservesZero(counter)
         THEN /\ pc' = [pc EXCEPT ![t] = "step_test"]
              /\ stepDone' = stepDone
         ELSE /\ Return(t)
              /\ stepDone' = stepDone \cup {who[t]}
    /\ UNCHANGED <<refs, started, callback, aborted, ret, who, prog, mintLog,
                   firedBy, output>>

\* if(data->started && data->callback): the atomic load of started.
StepTest(t) ==
    /\ ~aborted
    /\ pc[t] = "step_test"
    /\ IF MayFire(started, callback)
         THEN /\ pc' = [pc EXCEPT ![t] = "fire"]
              /\ stepDone' = stepDone
         ELSE /\ Return(t)
              /\ stepDone' = stepDone \cup {who[t]}
    /\ UNCHANGED <<refs, data, aborted, ret, who, pre, prog, mintLog, decLog,
                   firedBy, output>>

\* A slip: the join is reset for another round once it has fired.
Fire_Rearm(t) ==
    /\ ~aborted
    /\ pc[t] = "fire"
    /\ firedBy' = Append(firedBy, who[t])
    /\ output' = Append(output, "finished")
    /\ stepDone' = stepDone \cup {who[t]}
    /\ started' = FALSE
    /\ Return(t)
    /\ UNCHANGED <<refs, counter, callback, aborted, ret, who, pre, prog,
                   mintLog, decLog>>

\* data->callback(): the completion runs inline on thread t.
Fire(t) ==
    /\ ~aborted
    /\ pc[t] = "fire"
    /\ firedBy' = Append(firedBy, who[t])
    /\ output' = Append(output, "finished")
    /\ stepDone' = stepDone \cup {who[t]}
    /\ Return(t)
    /\ UNCHANGED <<refs, data, aborted, ret, who, pre, prog, mintLog, decLog>>

(* ------------------ the caller: run() and its starters ---------------- *)

\* parallel(args...) in run() needs an operator() that takes no argument
\* when there is no starter, and the class has none: run(completion)
\* alone is ill-formed.
WellFormed == api = "direct" \/ N >= 1

\* The program of main(): both starters are asyncCall.  Only main() is
\* followed to its return; another caller of run() stays alive.
LiteralMain == starters = <<"async", "async">>

InitRun ==
    /\ counter = 0
    /\ started = FALSE
    /\ callback \in {"completion", "empty"}
    /\ aborted = FALSE
    /\ pc = [t \in Threads |-> IF t = 0 THEN "main" ELSE "unstarted"]
    /\ ret = [t \in Threads |-> "done"]
    /\ who = [t \in Threads |-> t]
    /\ pre = [t \in Threads |-> 0]
    /\ api \in Apis
    /\ starters \in StarterLists
    /\ idx = 0
    /\ mintLog = <<>>
    /\ decLog = <<>>
    /\ firedBy = <<>>
    /\ stepDone = {}
    /\ output = <<>>
    /\ calls = 0
    /\ refs = 0

\* std::cout << "started" << std::endl, before the join is made.
Main ==
    /\ pc[0] = "main"
    /\ WellFormed
    /\ output' = Append(output, "started")
    /\ pc' = [pc EXCEPT ![0] = "construct"]
    /\ UNCHANGED <<refs, data, aborted, ret, who, pre, prog, logs>>

\* run(completion) with no starter: no call operator matches.
IllFormed ==
    /\ pc[0] = "main"
    /\ ~WellFormed
    /\ pc' = [pc EXCEPT ![0] = "ill_formed"]
    /\ UNCHANGED <<refs, data, aborted, ret, who, pre, prog, logs, output>>

\* ParallelCallback parallel(arg): counter(0), started(false); then the
\* first arg(*this), or check() when there is no starter.
Construct ==
    /\ pc[0] = "construct"
    /\ counter' = 0
    /\ started' = FALSE
    /\ refs' = 1
    /\ IF N = 0
         THEN /\ pc' = [pc EXCEPT ![0] = "check_assert"]
              /\ ret' = [ret EXCEPT ![0] = "run_end"]
              /\ idx' = idx
         ELSE /\ pc' = [pc EXCEPT ![0] = "mint_assert"]
              /\ ret' = [ret EXCEPT ![0] = "starter"]
              /\ idx' = 1
    /\ UNCHANGED <<callback, aborted, who, pre, api, starters, calls, logs,
                   output>>

\* arg(slot) where arg invokes the slot itself.
StarterSync ==
    /\ ~aborted
    /\ pc[0] = "starter"
    /\ starters[idx] = "sync"
    /\ pc' = [pc EXCEPT ![0] = "step_dec"]
    /\ who' = [who EXCEPT ![0] = idx]
    /\ ret' = [ret EXCEPT ![0] = "after_starter"]
    /\ UNCHANGED <<refs, data, aborted, pre, prog, logs, output>>

\* asyncCall(slot): std::async starts a thread that calls the copy of the
\* slot captured by the lambda; the caller then waits in the destructor of
\* the returned future.
AsyncCall ==
    /\ ~aborted
    /\ pc[0] = "starter"
    /\ starters[idx] = "async"
    /\ pc' = [pc EXCEPT ![0] = "join", ![idx] = "step_dec"]
    /\ who' = [who EXCEPT ![idx] = idx]
    /\ ret' = [ret EXCEPT ![idx] = "task_end"]
    /\ refs' = Shared(refs)
    /\ UNCHANGED <<data, aborted, pre, prog, logs, output>>

\* The destructor of the future of std::async returns once the thread has
\* finished.
Join ==
    /\ ~aborted
    /\ pc[0] = "join"
    /\ pc[idx] = "done"
    /\ pc' = [pc EXCEPT ![0] = "after_starter"]
    /\ UNCHANGED <<refs, data, aborted, ret, who, pre, prog, logs, output>>

\* arg(slot) where arg hands a copy of the slot to a thread and returns.
StarterSpawn ==
    /\ ~aborted
    /\ pc[0] = "starter"
    /\ starters[idx] = "spawn"
    /\ pc' = [pc EXCEPT ![0] = "after_starter", ![idx] = "step_dec"]
    /\ who' = [who EXCEPT ![idx] = idx]
    /\ ret' = [ret EXCEPT ![idx] = "task_end"]
    /\ refs' = Shared(refs)
    /\ UNCHANGED <<data, aborted, pre, prog, logs, output>>

\* The task's thread ends: its copy of the slot is destroyed.
TaskEnd(t) ==
    /\ ~aborted
    /\ pc[t] = "task_end"
    /\ pc' = [pc EXCEPT ![t] = "done"]
    /\ refs' = Released(refs)
    /\ UNCHANGED <<data, aborted, ret, who, pre, prog, logs, output>>

\* arg(slot) where arg never invokes the slot.
StarterDrop ==
    /\ ~aborted
    /\ pc[0] = "starter"
    /\ starters[idx] = "drop"
    /\ pc' = [pc EXCEPT ![0] = "after_starter", ![idx] = "dropped"]
    /\ UNCHANGED <<refs, data, aborted, ret, who, pre, prog, logs, output>>

\* A slip: the one-argument overload is taken for the first starter, so
\* check() follows it and the other starters are not invoked.
AfterStarter_FirstOnly ==
    /\ ~aborted
    /\ pc[0] = "after_starter"
    /\ refs' = Released(refs)
    /\ idx' = idx
    /\ pc' = [pc EXCEPT ![0] = "check_assert"]
    /\ ret' = [ret EXCEPT ![0] = "run_end"]
    /\ UNCHANGED <<data, aborted, who, pre, api, starters, calls, logs,
                   output>>

\* operator()(arg, args...): arg(*this) has returned and the slot made for
\* it is destroyed; then the next starter, and after the last one, check().
AfterStarter ==
    /\ ~aborted
    /\ pc[0] = "after_starter"
    /\ refs' = Released(refs)
    /\ IF idx < N
         THEN /\ idx' = idx + 1
              /\ pc' = [pc EXCEPT ![0] = "mint_assert"]
              /\ ret' = [ret EXCEPT ![0] = "starter"]
         ELSE /\ idx' = idx
              /\ pc' = [pc EXCEPT ![0] = "check_assert"]
              /\ ret' = [ret EXCEPT ![0] = "run_end"]
    /\ UNCHANGED <<data, aborted, who, pre, api, starters, calls, logs,
                   output>>

\* The end of run(), and of startTwoTasks: the local ParallelCallback is
\* destroyed.
RunEnd ==
    /\ ~aborted
    /\ pc[0] = "run_end"
    /\ pc' = [pc EXCEPT ![0] = "returned"]
    /\ refs' = Released(refs)
    /\ UNCHANGED <<data, aborted, ret, who, pre, prog, logs, output>>

\* return 0 of main().
MainReturn ==
    /\ ~aborted
    /\ pc[0] = "returned"
    /\ LiteralMain
    /\ pc' = [pc EXCEPT ![0] = "exit"]
    /\ UNCHANGED <<refs, data, aborted, ret, who, pre, prog, logs, output>>

\* What the starters and their tasks do with the slot they are given.
TaskSteps ==
    \/ StarterSync
    \/ AsyncCall
    \/ Join
    \/ StarterSpawn
    \/ StarterDrop
    \/ \E t \in Threads : TaskEnd(t)

\* The steps inside the members of ParallelCallback and inside step().
ClassSteps ==
    \/ \E t \in Threads : MintAssert(t)
    \/ \E t \in Threads : MintInc(t)
    \/ \E t \in Threads : CheckAssert(t)
    \/ \E t \in Threads : CheckStore(t)
    \/ \E t \in Threads : StepDec(t)
    \/ \E t \in Threads : StepTest(t)
    \/ \E t \in Threads : Fire(t)

\* A program that compiles: main() with ParallelCallback::run.
RunSteps ==
    \/ Main
    \/ Construct
    \/ AfterStarter
    \/ RunEnd
    \/ MainReturn
    \/ TaskSteps
    \/ ClassSteps

NextRun ==
    \/ IllFormed
    \/ RunSteps

Spec == InitRun /\ [][NextRun]_vars

(* --------- the handle used freely: the class without run() ----------- *)

\* Threads 0..NClients-1 each hold a copy of one ParallelCallback (the
\* copies share _data) and any slot minted so far, and call operator
\* Callback(), check() and the slots in any order and any number of times.
Clients == 0..(NClients - 1)

InitUse ==
    /\ counter = 0
    /\ started = FALSE
    /\ callback \in {"completion", "empty"}
    /\ aborted = FALSE
    /\ pc = [t \in Threads |-> IF t \in Clients THEN "idle" ELSE "unstarted"]
    /\ ret = [t \in Threads |-> "idle"]
    /\ who = [t \in Threads |-> Close]
    /\ pre = [t \in Threads |-> 0]
    /\ api = "handle"
    /\ starters = <<>>
    /\ idx = 0
    /\ mintLog = <<>>
    /\ decLog = <<>>
    /\ firedBy = <<>>
    /\ stepDone = {}
    /\ output = <<>>
    /\ calls = 0
    /\ refs = NClients

\* Callback slot = parallel: a client converts its handle.
CallMint(t) ==
    /\ ~aborted
    /\ pc[t] = "idle"
    /\ calls < MaxCalls
    /\ calls' = calls + 1
    /\ pc' = [pc EXCEPT ![t] = "mint_assert"]
    /\ UNCHANGED <<refs, data, aborted, ret, who, pre, api, starters, idx,
                   logs, output>>

\* parallel.check(): a client closes.
CallCheck(t) ==
    /\ ~aborted
    /\ pc[t] = "idle"
    /\ calls < MaxCalls
    /\ calls' = calls + 1
    /\ pc' = [pc EXCEPT ![t] = "check_assert"]
    /\ UNCHANGED <<refs, data, aborted, ret, who, pre, api, starters, idx,
                   logs, output>>

\* callback(): a client invokes a slot minted earlier (a copy of it: the
\* same slot can be invoked again).
CallSlot(t) ==
    /\ ~aborted
    /\ pc[t] = "idle"
    /\ calls < MaxCalls
    /\ \E i \in 1..mints :
          who' = [who EXCEPT ![t] = i]
    /\ calls' = calls + 1
    /\ pc' = [pc EXCEPT ![t] = "step_dec"]
    /\ UNCHANGED <<refs, data, aborted, ret, pre, api, starters, idx, logs,
                   output>>

NextUse ==
    \/ \E t \in Clients : CallMint(t)
    \/ \E t \in Clients : CallCheck(t)
    \/ \E t \in Clients : CallSlot(t)
    \/ \E t \in Threads : MintAssert(t)
    \/ \E t \in Threads : MintInc(t)
    \/ \E t \in Threads : CheckAssert(t)
    \/ \E t \in Threads : CheckStore(t)
    \/ \E t \in Threads : StepDec(t)
    \/ \E t \in Threads : StepTest(t)
    \/ \E t \in Threads : Fire(t)

SpecUse == InitUse /\ [][NextUse]_vars

\* The class under either caller.
SpecAll == (InitRun \/ InitUse) /\ [][NextRun \/ NextUse]_vars


(* ------------- parallel_test_1.cpp: the first version ----------------- *)

\* std::make_shared<std::atomic<int>>(2): one per task started.
V1Tasks == 2

\* How startTaskOne and startTaskTwo run the callback they are given:
\* "async" is asyncCall of the repository, whose future joins the thread
\* before asyncCall returns; "spawn" is a thread that runs it at any later
\* time; "sync" calls it before returning.
V1Kinds == {"sync", "async", "spawn"}

\* A slip: the test is off by one.
V1ReadsZero_OffByOne(c) == c <= 1

\* counter->load() == 0 (the callback 'parallel').
V1ReadsZero(c) == c = 0

InitV1 ==
    /\ counter = 0
    /\ started = FALSE
    /\ callback = "completion"
    /\ aborted = FALSE
    /\ pc = [t \in Threads |-> IF t = 0 THEN "v1_main" ELSE "unstarted"]
    /\ ret = [t \in Threads |-> "done"]
    /\ who = [t \in Threads |-> t]
    /\ pre = [t \in Threads |-> 0]
    /\ api = "v1"
    /\ starters \in [1..V1Tasks -> V1Kinds]
    /\ idx = 0
    /\ mintLog = <<>>
    /\ decLog = <<>>
    /\ firedBy = <<>>
    /\ stepDone = {}
    /\ output = <<>>
    /\ calls = 0
    /\ refs = 0

\* std::cout << "started" << std::endl.
V1Main ==
    /\ pc[0] = "v1_main"
    /\ output' = Append(output, "started")
    /\ pc' = [pc EXCEPT ![0] = "v1_make"]
    /\ UNCHANGED <<refs, data, aborted, ret, who, pre, prog, logs>>

\* auto counter = std::make_shared<std::atomic<int>>(2); then
\* startTaskOne(parallel).
V1Make ==
    /\ pc[0] = "v1_make"
    /\ counter' = V1Tasks
    /\ idx' = 1
    /\ pc' = [pc EXCEPT ![0] = "v1_starter"]
    /\ UNCHANGED <<refs, started, callback, aborted, ret, who, pre, api,
                   starters, calls, logs, output>>

\* A task that calls the callback before returning.
V1StarterSync ==
    /\ pc[0] = "v1_starter"
    /\ starters[idx] = "sync"
    /\ pc' = [pc EXCEPT ![0] = "v1_dec"]
    /\ who' = [who EXCEPT ![0] = idx]
    /\ ret' = [ret EXCEPT ![0] = "v1_after"]
    /\ UNCHANGED <<refs, data, aborted, pre, prog, logs, output>>

\* asyncCall(callback): std::async starts the thread, and the caller waits
\* for it in the destructor of the returned future.
V1AsyncCall ==
    /\ pc[0] = "v1_starter"
    /\ starters[idx] = "async"
    /\ pc' = [pc EXCEPT ![0] = "v1_join", ![idx] = "v1_dec"]
    /\ who' = [who EXCEPT ![idx] = idx]
    /\ ret' = [ret EXCEPT ![idx] = "done"]
    /\ UNCHANGED <<refs, data, aborted, pre, prog, logs, output>>

V1Join ==
    /\ pc[0] = "v1_join"
    /\ pc[idx] = "done"
    /\ pc' = [pc EXCEPT ![0] = "v1_after"]
    /\ UNCHANGED <<refs, data, aborted, ret, who, pre, prog, logs, output>>

\* A task that runs the callback on a thread of its own.
V1StarterSpawn ==
    /\ pc[0] = "v1_starter"
    /\ starters[idx] = "spawn"
    /\ pc' = [pc EXCEPT ![0] = "v1_after", ![idx] = "v1_dec"]
    /\ who' = [who EXCEPT ![idx] = idx]
    /\ ret' = [ret EXCEPT ![idx] = "done"]
    /\ UNCHANGED <<refs, data, aborted, pre, prog, logs, output>>

\* startTaskTwo(parallel) after startTaskOne(parallel); then
\* startTwoTasks returns.
V1After ==
    /\ pc[0] = "v1_after"
    /\ IF idx < V1Tasks
         THEN /\ idx' = idx + 1
              /\ pc' = [pc EXCEPT ![0] = "v1_starter"]
         ELSE /\ idx' = idx
              /\ pc' = [pc EXCEPT ![0] = "returned"]
    /\ UNCHANGED <<refs, data, aborted, ret, who, pre, api, starters, calls,
                   logs, output>>

\* --(*counter): the atomic decrement, its result not used.
V1Dec(t) ==
    /\ pc[t] = "v1_dec"
    /\ counter' = Decremented(counter)
    /\ pre' = [pre EXCEPT ![t] = counter]
    /\ decLog' = Append(decLog,
                        [who |-> who[t], pre |-> counter, st |-> started,
                         fb |-> fired])
    /\ pc' = [pc EXCEPT ![t] = "v1_load"]
    /\ UNCHANGED <<refs, started, callback, aborted, ret, who, prog, mintLog,
                   firedBy, stepDone, output>>

\* if(counter->load() == 0): a second atomic operation.
V1Load(t) ==
    /\ pc[t] = "v1_load"
    /\ IF V1ReadsZero(counter)
         THEN /\ pc' = [pc EXCEPT ![t] = "v1_fire"]
              /\ stepDone' = stepDone
         ELSE /\ Return(t)
              /\ stepDone' = stepDone \cup {who[t]}
    /\ UNCHANGED <<refs, data, aborted, ret, who, pre, prog, mintLog, decLog,
                   firedBy, output>>

\* callback(): the completion, which writes "finished".
V1Fire(t) ==
    /\ pc[t] = "v1_fire"
    /\ firedBy' = Append(firedBy, who[t])
    /\ output' = Append(output, "finished")
    /\ stepDone' = stepDone \cup {who[t]}
    /\ Return(t)
    /\ UNCHANGED <<refs, data, aborted, ret, who, pre, prog, mintLog, decLog>>

\* return 0 of main().
V1Return ==
    /\ pc[0] = "returned"
    /\ LiteralMain
    /\ pc' = [pc EXCEPT ![0] = "exit"]
    /\ UNCHANGED <<refs, data, aborted, ret, who, pre, prog, logs, output>>

NextV1 ==
    \/ V1Main
    \/ V1Make
    \/ V1StarterSync
    \/ V1AsyncCall
    \/ V1Join
    \/ V1StarterSpawn
    \/ V1After
    \/ V1Return
    \/ \E t \in Threads : V1Dec(t)
    \/ \E t \in Threads : V1Load(t)
    \/ \E t \in Threads : V1Fire(t)

SpecV1 == InitV1 /\ [][NextV1]_vars

\* The fairness of the scheduler: a thread that can take a step is
\* eventually run.
LiveSpec == InitRun /\ [][NextRun]_vars /\ WF_vars(NextRun)

\* ---------------------------------------------------------------------
\* parallel_test_2.cpp: startTwoTasks written out by hand, next to
\* ParallelCallback::run(callback, startTaskOne, startTaskTwo) of
\* parallel_test_3.cpp. The class, asyncCall and main() are the same text
\* in both files.

\* startTaskOne and startTaskTwo.
P2Tasks == 2

\* A program with two tasks, whatever each does with its slot.
InitTwo ==
    /\ InitRun
    /\ N = P2Tasks

\* ParallelCallback parallel(callback); then startTaskOne(parallel), which
\* begins with the conversion of parallel to a Callback.
P2Construct ==
    /\ pc[0] = "construct"
    /\ counter' = 0
    /\ started' = FALSE
    /\ refs' = 1
    /\ idx' = 1
    /\ pc' = [pc EXCEPT ![0] = "mint_assert"]
    /\ ret' = [ret EXCEPT ![0] = "starter"]
    /\ UNCHANGED <<callback, aborted, who, pre, api, starters, calls, logs,
                   output>>

\* startTaskOne(parallel) has returned and its Callback is destroyed;
\* startTaskTwo(parallel) begins with the conversion of parallel.
P2StartTaskTwo ==
    /\ ~aborted
    /\ pc[0] = "after_starter"
    /\ idx = 1
    /\ refs' = Released(refs)
    /\ idx' = 2
    /\ pc' = [pc EXCEPT ![0] = "mint_assert"]
    /\ ret' = [ret EXCEPT ![0] = "starter"]
    /\ UNCHANGED <<data, aborted, who, pre, api, starters, calls, logs,
                   output>>

\* startTaskTwo(parallel) has returned and its Callback is destroyed;
\* parallel.check().
P2Check ==
    /\ ~aborted
    /\ pc[0] = "after_starter"
    /\ idx = 2
    /\ refs' = Released(refs)
    /\ pc' = [pc EXCEPT ![0] = "check_assert"]
    /\ ret' = [ret EXCEPT ![0] = "run_end"]
    /\ UNCHANGED <<data, aborted, who, pre, prog, logs, output>>

NextP2 ==
    \/ Main
    \/ P2Construct
    \/ P2StartTaskTwo
    \/ P2Check
    \/ RunEnd
    \/ MainReturn
    \/ TaskSteps
    \/ ClassSteps

SpecP2 == InitTwo /\ [][NextP2]_vars

\* Both programs side by side, from the same initial states.
SpecTwo == InitTwo /\ [][NextP2 \/ RunSteps]_vars

(* ----------------------------- properties ----------------------------- *)

Range(f) == {f[i] : i \in DOMAIN f}

\* The slots whose invocation has done its decrement.
SlotDecs == {decLog[i].who : i \in DOMAIN decLog} \ {Close}

\* The decrements check() has done.
CloseDecs == {i \in DOMAIN decLog : decLog[i].who = Close}

\* Every starter has its slot invoked (exactly once: a starter invokes it
\* at most once).
NoDrop == \A i \in 1..N : starters[i] # "drop"

\* The caller is back from run() (or from check()) and no thread is left
\* with a slot to invoke.
RunOver ==
    /\ pc[0] \in {"returned", "exit"}
    /\ \A i \in 1..N : pc[i] \in {"unstarted", "done"}

\* C1. Single-fire: the completion is never invoked twice and, once the
\* close and every one of the N >= 0 slot invocations are over, whatever
\* their interleaving, it has been invoked exactly once.
C1_SingleFire ==
    /\ fired <= 1
    /\ (NoDrop /\ callback = "completion" /\ RunOver) => fired = 1

C1_Witness ==
    /\ RunOver
    /\ N >= 2
    /\ \A i \in 1..N : starters[i] = "spawn"
    /\ fired = 1
    /\ firedBy[1] # Close

\* C2. No fire while a slot is outstanding: if the completion has been
\* invoked then every one of the N slots has been invoked, whether or not
\* check() has been called; a slot that is never invoked keeps the
\* completion from ever being invoked.
C2_NoFireWhileOutstanding ==
    fired > 0 => \A i \in 1..N : i \in SlotDecs

C2_Witness ==
    /\ N >= 2
    /\ Close \in stepDone
    /\ SlotDecs # {}
    /\ \E i \in 1..N : i \notin SlotDecs /\ pc[i] = "dropped"
    /\ pc[0] = "returned"
    /\ fired = 0

\* C3. No fire before close: the completion is never invoked while started
\* is false; in run() it is invoked only after every starter has been given
\* its slot and check() has stored the flag, also when starters invoke
\* their slot synchronously.
C3_NoFireBeforeClose ==
    fired > 0 => (started /\ (api \in Apis => mints = N))

C3_Witness ==
    /\ api = "run"
    /\ N >= 2
    /\ \A i \in 1..N : starters[i] = "sync"
    /\ firedBy = <<Close>>
    /\ \A i \in DOMAIN decLog : decLog[i].who # Close => decLog[i].pre = 1

\* C4. Zero-slot case: the call run(completion) with no starter ends with
\* the completion invoked exactly once.
C4_RunNoStarters ==
    (api = "run" /\ N = 0 /\ callback = "completion")
        => (pc[0] = "main" \/ fired = 1)

\* C5. Who fires: the completion is invoked by the operation whose
\* decrement is the last of the N + 1 (check() if every slot had done its
\* decrement before, the last slot otherwise), and it has been invoked by
\* the time that operation returns.
C5_LastOperationFires ==
    /\ \A k \in DOMAIN firedBy :
          /\ Len(decLog) = N + 1
          /\ firedBy[k] = decLog[N + 1].who
          /\ (firedBy[k] = Close <=>
                \A i \in 1..N : \E j \in 1..N : decLog[j].who = i)
    /\ (/\ Len(decLog) = N + 1
        /\ decLog[N + 1].who \in stepDone
        /\ callback = "completion") => fired = 1

C5_Witness ==
    /\ N >= 2
    /\ Len(decLog) = N + 1
    /\ decLog[1].who = Close
    /\ decLog[N + 1].who = 1
    /\ firedBy = <<1>>
    /\ 1 \in stepDone

\* run(completion, s1, s2) where each starter has its slot invoked on a
\* thread of its own: asyncCall as in parallel_test_3.cpp (LiteralMain),
\* or a thread that is not waited for.
TwoTaskProgram ==
    /\ api = "run"
    /\ N = 2
    /\ \A i \in 1..N : starters[i] \in {"async", "spawn"}
    /\ callback = "completion"

\* C6. Two-task scenario: the program writes "started" first and then,
\* eventually, exactly one "finished", whichever task completes first; the
\* program of parallel_test_3.cpp has written both when main returns.
C6_TwoTaskScenario ==
    /\ [](TwoTaskProgram =>
            /\ output \in {<<>>, <<"started">>, <<"started", "finished">>}
            /\ (pc[0] = "exit" => output = <<"started", "finished">>))
    /\ (TwoTaskProgram ~> [](output = <<"started", "finished">>))

C6_Witness ==
    /\ TwoTaskProgram
    /\ LiteralMain
    /\ pc[0] = "exit"
    /\ decLog[1].who = 1
    /\ output = <<"started", "finished">>

\* C7. Mint after close is rejected: no ++counter is done once started has
\* been set, also when the mint and the close come from different threads.
C7_NoMintAfterClose ==
    \A i \in DOMAIN mintLog : ~mintLog[i]

\* C8. Double close is rejected: the decrement of check() is applied at
\* most once to a join state.
C8_CloseOnce ==
    Cardinality(CloseDecs) <= 1

\* C9 as stated. Post-decrement firing rule: an operation whose decrement
\* leaves the counter at a value <= 0 while started is true, the
\* completion not yet invoked, invokes the completion.
C9_PostDecrementRule ==
    \A i \in DOMAIN decLog :
        (/\ decLog[i].pre - 1 <= 0
         /\ decLog[i].st
         /\ decLog[i].fb = 0
         /\ decLog[i].who \in stepDone
         /\ callback = "completion") => decLog[i].who \in Range(firedBy)

\* C9 as amended. An operation whose decrement leaves the counter at
\* exactly -1 (it fetched 0) while started is true invokes the completion;
\* one that leaves it at 0 or more does not.
C9_PreDecrementRule ==
    \A i \in DOMAIN decLog :
        /\ (/\ decLog[i].pre - 1 = -1
            /\ decLog[i].st
            /\ decLog[i].who \in stepDone
            /\ callback = "completion") => decLog[i].who \in Range(firedBy)
        /\ (decLog[i].pre - 1 >= 0 /\ api \in Apis)
              => decLog[i].who \notin Range(firedBy)

C9_Witness ==
    /\ N >= 2
    /\ Len(decLog) = N + 1
    /\ decLog[1].who = Close
    /\ decLog[2].pre = 1
    /\ decLog[2].st
    /\ decLog[2].who \in stepDone
    /\ fired = 1
    /\ decLog[2].who \notin Range(firedBy)

ZeroDecs == {i \in DOMAIN decLog : decLog[i].pre = 0}

\* C11. Unique winner: a step() that has returned has invoked the
\* completion if and only if its decrement fetched 0, started was true and
\* the callback is not empty; at most one decrement fetches 0, exactly one
\* once all N + 1 are done, and that one is the last of them, done after
\* started was set: the last slot after close, or close itself.
C11_UniqueWinner ==
    /\ \A i \in DOMAIN decLog :
          decLog[i].who \in stepDone =>
              (decLog[i].who \in Range(firedBy) <=>
                  /\ decLog[i].pre = 0
                  /\ started
                  /\ callback # "empty")
    /\ Cardinality(ZeroDecs) <= 1
    /\ \A i \in ZeroDecs :
          /\ decLog[i].st
          /\ i = N + 1
          /\ Close \in {decLog[j].who : j \in 1..i}
    /\ (NoDrop /\ RunOver) => Cardinality(ZeroDecs) = 1

C11_Witness ==
    /\ N >= 2
    /\ \A i \in 1..N : starters[i] = "spawn"
    /\ RunOver
    /\ decLog[N + 1].who = Close
    /\ decLog[N + 1].pre = 0
    /\ firedBy = <<Close>>

\* The decrements done by slot invocations.
SlotDecCount == Cardinality({i \in DOMAIN decLog : decLog[i].who # Close})

\* C12. Counter accounting: the counter is the number of mints done, less
\* the slot decrements done, less one once check() has done its decrement.
\* In run() it stays within -1..N, and it is -1 exactly when all N slots
\* and check() have done their decrement, which is exactly when the
\* completion is being or has been invoked; check() does not return
\* without having taken its unit.
C12_CounterAccounting ==
    /\ counter = mints - SlotDecCount - Cardinality(CloseDecs)
    /\ api \in Apis =>
          /\ Cardinality(CloseDecs) <= 1
          /\ counter \in -1..N
          /\ (counter = -1 <=> (SlotDecs = 1..N /\ CloseDecs # {}))
          /\ (pc[0] \in {"returned", "exit"} => CloseDecs # {})
          /\ callback = "completion" =>
                (counter = -1 <=>
                    \/ fired = 1
                    \/ \E t \in Threads : pc[t] \in {"step_test", "fire"})

C12_Witness ==
    /\ api = "run"
    /\ N >= 2
    /\ counter = -1
    /\ mints = N
    /\ SlotDecCount = N
    /\ fired = 1
    /\ decLog[1].who = Close
    /\ decLog[1].pre = N

\* C14. Empty completion: with an empty callback the step that fetches 0
\* with started true invokes nothing and fails no assertion, and the run
\* ends with the counter and the flag where a completion leaves them.
C14_EmptyCompletion ==
    /\ callback = "empty" =>
          /\ fired = 0
          /\ ~aborted
          /\ \A i \in DOMAIN output : output[i] # "finished"
          /\ \A t \in Threads : pc[t] # "fire"
    /\ (NoDrop /\ RunOver) =>
          /\ counter = -1
          /\ started
          /\ Len(decLog) = N + 1
          /\ decLog[N + 1].pre = 0
          /\ decLog[N + 1].st
          /\ decLog[N + 1].who \in stepDone

C14_Witness ==
    /\ callback = "empty"
    /\ N >= 1
    /\ NoDrop
    /\ RunOver
    /\ counter = -1
    /\ fired = 0

\* C15. Frame conditions: started begins false, is written only by
\* check(), and once true stays true; a mint adds one to the counter and a
\* slot invocation or close takes one from it, neither touches started;
\* nothing else changes the counter; the callback is never changed.
C15_Frame ==
    /\ ~started
    /\ [][/\ started => started'
          /\ started' # started =>
                \E t \in Threads : pc[t] = "check_store" /\ pc'[t] = "step_dec"
          /\ callback' = callback
          /\ mintLog' # mintLog =>
                (counter' = counter + 1 /\ started' = started)
          /\ decLog' # decLog =>
                (counter' = counter - 1 /\ started' = started)
          /\ counter' # counter => (mintLog' # mintLog \/ decLog' # decLog)
         ]_vars

C15_Witness ==
    /\ started
    /\ fired = 1
    /\ mints >= 2
    /\ Len(decLog) >= 3
    /\ counter = -1

\* No ++counter has been done with started set.
NoLateMint == \A i \in DOMAIN mintLog : ~mintLog[i]

\* C17 as stated. At-most-once survives slot misuse: with no increment
\* after started was set, the completion is invoked at most once even if
\* slots are invoked more than once or never.
C17_AtMostOnceUnderMisuse ==
    NoLateMint => fired <= 1

\* C17 as amended. With no increment after started was set, the values
\* fetched by the decrements done with started set are strictly
\* decreasing, so at most one of them is 0; the completion is invoked at
\* most once unless a step fetched 0 before started was set.
C17_OneZeroAfterClose ==
    NoLateMint =>
        /\ \A i, j \in DOMAIN decLog :
              (i < j /\ decLog[i].st) => decLog[j].pre < decLog[i].pre
        /\ Cardinality({i \in ZeroDecs : decLog[i].st}) <= 1
        /\ (\A i \in ZeroDecs : decLog[i].st) => fired <= 1
        /\ fired <= Cardinality(ZeroDecs)

C17_Witness ==
    /\ api = "handle"
    /\ NoLateMint
    /\ mints = 2
    /\ \E i, j \in DOMAIN decLog :
          i < j /\ decLog[i].who = decLog[j].who /\ decLog[i].who # Close
    /\ started
    /\ \E i \in ZeroDecs : decLog[i].st
    /\ fired = 1

\* C18. First version: the completion is not invoked, and no callback has
\* read 0, before both task callbacks have done their decrement.
C18_V1AfterBothDecrements ==
    /\ fired > 0 => Len(decLog) = V1Tasks
    /\ \A t \in Threads : pc[t] = "v1_fire" => Len(decLog) = V1Tasks

C18_Witness ==
    /\ \A i \in 1..V1Tasks : starters[i] = "spawn"
    /\ fired = 2
    /\ Len(decLog) = V1Tasks

\* Where a thread reads or writes the ParallelCallbackData.
AccessPcs == {"mint_assert", "mint_inc", "check_assert", "check_store",
              "step_dec", "step_test", "fire"}

\* The local ParallelCallback of run() exists.
HandleAlive ==
    pc[0] \notin {"main", "ill_formed", "construct", "returned", "exit"}

\* The slot made for the current starter exists on the calling thread.
SlotTemp ==
    \/ pc[0] \in {"starter", "join", "after_starter"}
    \/ pc[0] \in {"step_dec", "step_test", "fire"} /\ ret[0] = "after_starter"

\* The tasks that still have their copy of a slot.
TaskCopies ==
    {t \in 1..N : pc[t] \in {"step_dec", "step_test", "fire", "task_end"}}

\* C16. Shared lifetime: the state has one owner for the handle while it
\* exists and one for every copy of a slot that exists, so it is released
\* (no owner left) only when the handle is gone and every slot is
\* destroyed, and never while a thread is in a member of the class or in
\* step(): a slot invoked after run() has returned works on a live state.
C16_SharedLifetime ==
    /\ refs = (IF HandleAlive THEN 1 ELSE 0) + (IF SlotTemp THEN 1 ELSE 0)
              + Cardinality(TaskCopies)
    /\ refs = 0 <=> (~HandleAlive /\ ~SlotTemp /\ TaskCopies = {})
    /\ \A t \in Threads : pc[t] \in AccessPcs => refs > 0

C16_Witness ==
    /\ api = "run"
    /\ pc[0] = "returned"
    /\ \E t \in 1..N : pc[t] = "step_dec"
    /\ refs = 1

\* Starter i has been invoked (with the slot minted for it).
StarterInvoked(i) ==
    CASE starters[i] = "sync" ->
            \/ i \in SlotDecs
            \/ i < idx
            \/ i = idx /\ pc[0] \in {"step_dec", "after_starter"}
      [] starters[i] = "drop" -> pc[i] = "dropped"
      [] OTHER -> pc[i] # "unstarted"

\* Starter i has returned to run().
StarterReturned(i) ==
    CASE starters[i] = "sync" -> i \in stepDone
      [] starters[i] = "async" -> pc[i] = "done"
      [] starters[i] = "spawn" ->
            pc[i] # "unstarted" /\ ~(i = idx /\ pc[0] = "starter")
      [] OTHER -> pc[i] = "dropped"

\* The calling thread is in check(), or past it.
AtOrPastCheck ==
    \/ pc[0] \in {"check_assert", "check_store", "run_end", "returned",
                  "exit"}
    \/ pc[0] \in {"step_dec", "step_test", "fire"} /\ ret[0] = "run_end"

\* C13. In run(completion, s1, ..., sn), n >= 1, mints and check() are
\* done by the calling thread only; starter i is invoked only once i slots
\* are minted and slot i + 1 is minted only once starter i has returned;
\* check() is entered, and started is set, only once n slots are minted
\* and all n starters have returned; when run() has returned there have
\* been exactly n mints and exactly one close.
C13_RunSequence ==
    (api = "run" /\ N >= 1) =>
        /\ \A t \in Threads \ {0} :
              pc[t] \notin {"mint_assert", "mint_inc", "check_assert",
                            "check_store"}
        /\ mints <= N
        /\ Cardinality(CloseDecs) <= 1
        /\ ~aborted
        /\ \A i \in 1..N :
              /\ StarterInvoked(i) => mints >= i
              /\ mints >= i + 1 => StarterReturned(i)
              /\ (i > 1 /\ StarterInvoked(i)) => StarterReturned(i - 1)
        /\ (AtOrPastCheck \/ started) =>
              /\ mints = N
              /\ \A i \in 1..N : StarterReturned(i)
        /\ CloseDecs # {} => AtOrPastCheck
        /\ pc[0] \in {"returned", "exit"} =>
              /\ mints = N
              /\ Cardinality(CloseDecs) = 1

C13_Witness ==
    /\ api = "run"
    /\ starters = <<"sync", "spawn", "async">>
    /\ pc[0] = "returned"
    /\ mints = 3
    /\ Cardinality(CloseDecs) = 1
    /\ pc[2] = "step_dec"

\* C19. The variadic helper and the hand-written sequence: from every
\* state either program with two tasks can reach, every step of
\* startTwoTasks of parallel_test_2.cpp is a step of
\* run(callback, startTaskOne, startTaskTwo) and every step of run is a
\* step of startTwoTasks, so the two have the same reachable states of
\* the counter and the flag and invoke the completion alike.
C19_SameSteps == [][NextP2 /\ RunSteps]_vars

C19_Witness ==
    /\ starters = <<"spawn", "spawn">>
    /\ pc[0] = "returned"
    /\ mints = P2Tasks
    /\ Len(decLog) = P2Tasks + 1
    /\ decLog[1].who = 2
    /\ firedBy = <<1>>
    /\ counter = -1

====
